---- MODULE Spec2Model ----
(***************************************************************************)
(* Model of the PostgreSQL tool gateway: shared_code/db_manager.py (the    *)
(* process-wide connection pool) and function_app.py (the tools, their     *)
(* argument extraction and _execute_query).  Worker threads run tool       *)
(* invocations concurrently; a step of the model is one read or write of   *)
(* shared state (the global db_pool, the pool's bookkeeping, the           *)
(* environment).  What a tool does between two such accesses is local to   *)
(* the call and is computed by operators that follow the Python code:      *)
(* json.loads' values, the "in" tests, int(), str.strip/upper/startswith   *)
(* (on ASCII text) and dict(zip(...)).                                     *)
(***************************************************************************)
EXTENDS Integers, Sequences, FiniteSets, TLC

\* ---------------------------------------------------------------- bounds
NThreads == 2
MaxCalls == 3

\* ------------------------------------------------------ program constants
MinConn == 1
MaxConn == 20

Threads == 1..NThreads


VARIABLES
    db_pool,    \* the global db_pool: 0 is None, else an index into pools
    pools,      \* every SimpleConnectionPool constructed so far
    nconn,      \* connections opened so far (a connection is its number)
    closed,     \* connections that were closed
    calls,      \* invocations started so far
    pc,         \* per thread: the line it is at
    op,         \* per thread: the operation it runs
    pl,         \* per thread: self of the pool method it is inside
    key,        \* per thread: local key of _getconn / _putconn
    obs,        \* per thread: the branch _getconn / _putconn decided on
    conn,       \* per thread: local conn of _execute_query, 0 when unbound
    newPool,    \* per thread: the pool constructed at line 27, not yet stored
    pend,       \* per thread: what the try block of _execute_query ended with
    out,        \* per thread: how the operation ended
    msg,        \* per thread: the message or exception it ended with
    ret,        \* per thread: value returned by init_db_pool
    exc,        \* per thread: the exception get_db_connection raised
    acq,        \* per thread: pool the connection of this call came from, 0 if none
    rel,        \* per thread: completed putconn calls of this call
    inits,      \* per thread: init_db_pool calls made in this call
    sawInit,    \* per thread: db_pool seen at line 14 of the current init call
    envSeen,    \* per thread: what lines 16-27 met: unset, down or ok
    ctx,        \* per thread: the context string the call was given
    names,      \* per thread: expected_arg_names of a _parse_context_args call
    val,        \* per thread: the value that goes with out (sum, mapping, name)
    res         \* per thread: columns and rows built at lines 183-185

vars == <<db_pool, pools, nconn, closed, calls, pc, op, pl, key,
          obs, conn, newPool, pend, out, msg, ret, acq, rel, inits, sawInit,
          envSeen, exc, ctx, names, val, res>>

shared == <<db_pool, pools, nconn, closed>>
getLocals == <<pl, key, obs>>
ghost == <<acq, rel, inits, sawInit, envSeen>>
result == <<out, msg, exc, val>>
input == <<ctx, names>>

\* ---------------------------------------------------------------- helpers
EmptyFn == [x \in {} |-> 0]

Put(f, k, v) == [x \in (DOMAIN f) \cup {k} |-> IF x = k THEN v ELSE f[x]]

Del(f, k) == [x \in (DOMAIN f) \ {k} |-> f[x]]

\* AbstractConnectionPool.__init__ after its minconn calls of _connect()
NewPool(first) ==
    [idle |-> [i \in 1..MinConn |-> first + i - 1],
     used |-> EmptyFn, rused |-> EmptyFn, keys |-> 0]

SetPool(p, f, v) == [pools EXCEPT ![p] = [@ EXCEPT ![f] = v]]

\* ------------------------------------------------------------ JSON values
\* A JSON value as json.loads returns it is a tuple that starts with its
\* Python type; a str is the sequence of its characters, a dict a function
\* from its keys.
Null == <<"null">>

Bool(b) == <<"bool", b>>

Integer(n) == <<"int", n>>

\* the float num/den; json.loads also reads NaN and Infinity
Float(num, den) == <<"float", num, den>>

NaN == <<"nan">>

Infinity == <<"inf">>

Str(s) == <<"str", s>>

List(l) == <<"list", l>>

Obj(f) == <<"obj", f>>

TypeOf(v) == v[1]

\* The characters of the names the code tests with "in".
Chars(name) ==
    CASE name = "arguments" -> <<"a","r","g","u","m","e","n","t","s">>
      [] name = "num_a" -> <<"n","u","m","_","a">>
      [] name = "num_b" -> <<"n","u","m","_","b">>
      [] name = "sql_query" -> <<"s","q","l","_","q","u","e","r","y">>
      [] name = "error" -> <<"e","r","r","o","r">>

\* ----------------------------------------------------------- str methods
IsSpace(c) == c \in {" ", "\t", "\n", "\r"}

RECURSIVE LStrip(_)
LStrip(s) == IF s # <<>> /\ IsSpace(Head(s)) THEN LStrip(Tail(s)) ELSE s

RECURSIVE RStrip(_)
RStrip(s) ==
    IF s # <<>> /\ IsSpace(s[Len(s)]) THEN RStrip(SubSeq(s, 1, Len(s) - 1)) ELSE s

\* str.strip()
Strip(s) == RStrip(LStrip(s))

LowerCase == <<"a","b","c","d","e","f","g","h","i","j","k","l","m",
               "n","o","p","q","r","s","t","u","v","w","x","y","z">>

UpperCase == <<"A","B","C","D","E","F","G","H","I","J","K","L","M",
               "N","O","P","Q","R","S","T","U","V","W","X","Y","Z">>

\* str.upper()
Upper(s) ==
    [i \in 1..Len(s) |->
        IF \E j \in 1..Len(LowerCase) : LowerCase[j] = s[i]
        THEN UpperCase[CHOOSE j \in 1..Len(LowerCase) : LowerCase[j] = s[i]]
        ELSE s[i]]

\* str.startswith(prefix)
StartsWith(s, prefix) ==
    Len(s) >= Len(prefix) /\ SubSeq(s, 1, Len(prefix)) = prefix

\* "sub in s" on two str
Contains(s, sub) ==
    \E i \in 1..(Len(s) - Len(sub) + 1) : SubSeq(s, i, i + Len(sub) - 1) = sub

\* ------------------------------------------------------------------ int()
\* What int(v) ends with: <<"ok", n>> or <<the exception, 0>>.
Digits == <<"0","1","2","3","4","5","6","7","8","9">>

IsDigit(c) == \E d \in 1..10 : Digits[d] = c

DigitVal(c) == (CHOOSE d \in 1..10 : Digits[d] = c) - 1

\* A literal's digits: at least one, with single underscores between digits.
DigitsOk(s) ==
    /\ s # <<>>
    /\ \A i \in 1..Len(s) :
         \/ IsDigit(s[i])
         \/ /\ s[i] = "_"
            /\ 1 < i /\ i < Len(s)
            /\ IsDigit(s[i - 1]) /\ IsDigit(s[i + 1])

RECURSIVE DigitsVal(_, _)
DigitsVal(s, acc) ==
    IF s = <<>> THEN acc
    ELSE IF Head(s) = "_" THEN DigitsVal(Tail(s), acc)
    ELSE DigitsVal(Tail(s), 10 * acc + DigitVal(Head(s)))

\* int(str): surrounding whitespace, an optional sign, the digits.
IntOfStr(s) ==
    LET x == Strip(s)
        signed == x # <<>> /\ Head(x) \in {"+", "-"}
        d == IF signed THEN Tail(x) ELSE x
    IN IF DigitsOk(d)
       THEN <<"ok", IF signed /\ Head(x) = "-" THEN 0 - DigitsVal(d, 0)
                    ELSE DigitsVal(d, 0)>>
       ELSE <<"ValueError", 0>>

\* int(float) truncates towards zero.
Trunc(num, den) == IF num >= 0 THEN num \div den ELSE 0 - ((0 - num) \div den)

IntOf(v) ==
    CASE TypeOf(v) = "int" -> <<"ok", v[2]>>
      [] TypeOf(v) = "bool" -> <<"ok", IF v[2] THEN 1 ELSE 0>>
      [] TypeOf(v) = "float" -> <<"ok", Trunc(v[2], v[3])>>
      [] TypeOf(v) = "nan" -> <<"ValueError", 0>>
      [] TypeOf(v) = "inf" -> <<"OverflowError", 0>>
      [] TypeOf(v) = "str" -> IntOfStr(v[2])
      [] OTHER -> <<"TypeError", 0>>

\* ------------------------------------------------------------- containers
\* "name in v": yes or no on a dict (its keys), a list (its elements) and a
\* str (its substrings); on any other value the test raises TypeError.
In(name, v) ==
    CASE TypeOf(v) = "obj" -> IF name \in DOMAIN v[2] THEN "yes" ELSE "no"
      [] TypeOf(v) = "list" ->
           IF \E i \in 1..Len(v[2]) : v[2][i] = Str(Chars(name))
           THEN "yes" ELSE "no"
      [] TypeOf(v) = "str" -> IF Contains(v[2], Chars(name)) THEN "yes" ELSE "no"
      [] OTHER -> "TypeError"

\* The context string: text json.loads rejects, or the text of a value.
Malformed == <<"malformed">>

Json(v) == <<"json", v>>

NoContext == <<"none">>

\* What a function ends with: out is "error" (an {"error": msg} envelope),
\* "sum", "args" (the extracted mapping), "forward" (on to _execute_query)
\* or "raise" (msg is the exception); val is the value that goes with it.
Res(o, m, v) == [out |-> o, msg |-> m, val |-> v]

\* The envelope of add_integers_tool's "except Exception" clause.
Unexpected == Res("error", "An unexpected error occurred", Null)

\* ---------------------------------------------------- _parse_context_args
RECURSIVE Extract_FromEnd(_, _, _)
\* Mutant of Extract: the names are looked at from the last to the first.
Extract_FromEnd(args, arg_names, extracted_args) ==
    IF arg_names = <<>> THEN Res("args", "none", Obj(extracted_args))
    ELSE LET arg_name == arg_names[Len(arg_names)]
             rest == SubSeq(arg_names, 1, Len(arg_names) - 1)
         IN CASE In(arg_name, args) = "TypeError" ->
                   Res("raise", "TypeError", Null)
              [] In(arg_name, args) = "no" ->
                   Res("error", "Missing required argument", Str(Chars(arg_name)))
              [] In(arg_name, args) = "yes" ->
                   IF TypeOf(args) = "obj"
                   THEN Extract_FromEnd(args, rest,
                                Put(extracted_args, arg_name, args[2][arg_name]))
                   ELSE Res("raise", "TypeError", Null)

RECURSIVE Extract(_, _, _)
\* The loop of lines 162-166 over the names still to look at.
Extract(args, arg_names, extracted_args) ==
    IF arg_names = <<>> THEN Res("args", "none", Obj(extracted_args))
    ELSE LET arg_name == Head(arg_names)
         IN CASE In(arg_name, args) = "TypeError" ->
                   Res("raise", "TypeError", Null)
              [] In(arg_name, args) = "no" ->
                   Res("error", "Missing required argument", Str(Chars(arg_name)))
              [] In(arg_name, args) = "yes" ->
                   IF TypeOf(args) = "obj"
                   THEN Extract(args, Tail(arg_names),
                                Put(extracted_args, arg_name, args[2][arg_name]))
                   ELSE Res("raise", "TypeError", Null)

parse_context_args(context_str, expected_arg_names) ==
    IF context_str = Malformed
    THEN Res("error", "Invalid JSON format in input context.", Null)
    ELSE LET payload == context_str[2]
         IN CASE In("arguments", payload) = "TypeError" ->
                   Res("raise", "TypeError", Null)
              [] In("arguments", payload) = "no" ->
                   Res("error", "Invalid input format: 'arguments' key missing.", Null)
              [] In("arguments", payload) = "yes" ->
                   IF TypeOf(payload) = "obj"
                   THEN Extract(payload[2]["arguments"], expected_arg_names, EmptyFn)
                   ELSE Res("raise", "TypeError", Null)

\* ------------------------------------------------------ add_integers_tool
\* Lines 123-139: the two int() calls, "except ValueError", the sum. Any
\* other exception of int() reaches the outer "except Exception".
AddCoerced(val_a_input, val_b_input) ==
    LET a == IntOf(val_a_input)
        b == IntOf(val_b_input)
        failed == IF a[1] # "ok" THEN a[1] ELSE b[1]
    IN IF failed = "ok" THEN Res("sum", "none", Integer(a[2] + b[2]))
       ELSE IF failed = "ValueError"
       THEN Res("error",
                "Invalid argument types. 'num_a' and 'num_b' must be integers.",
                Null)
       ELSE Unexpected

\* Mutant of AddArgs: the missing-arguments test with "and" for "or", so a
\* request that lacks one of the two goes on to args[...] (KeyError).
AddArgs_And(args) ==
    IF In("num_a", args) = "TypeError" THEN Unexpected
    ELSE IF In("num_a", args) = "no" /\ In("num_b", args) = "no"
    THEN Res("error", "Missing required arguments: 'num_a' and 'num_b'.", Null)
    ELSE IF TypeOf(args) # "obj" THEN Unexpected
    ELSE IF In("num_a", args) = "no" \/ In("num_b", args) = "no" THEN Unexpected
    ELSE AddCoerced(args[2]["num_a"], args[2]["num_b"])

\* Lines 110-121 on args = payload["arguments"].
AddArgs(args) ==
    IF In("num_a", args) = "TypeError" THEN Unexpected
    ELSE IF In("num_a", args) = "no" \/ In("num_b", args) = "no"
    THEN Res("error", "Missing required arguments: 'num_a' and 'num_b'.", Null)
    ELSE IF TypeOf(args) # "obj" THEN Unexpected
    ELSE AddCoerced(args[2]["num_a"], args[2]["num_b"])

\* Lines 97-146.
add_integers(context) ==
    IF context = Malformed
    THEN Res("error", "Invalid JSON format in input context.", Null)
    ELSE LET payload == context[2]
         IN CASE In("arguments", payload) = "TypeError" -> Unexpected
              [] In("arguments", payload) = "no" ->
                   Res("error", "Invalid input format: 'arguments' key missing.", Null)
              [] In("arguments", payload) = "yes" ->
                   IF TypeOf(payload) = "obj"
                   THEN AddArgs(payload[2]["arguments"])
                   ELSE Unexpected

\* -------------------------------------------------------- query_data_tool
SELECT == <<"S","E","L","E","C","T">>

\* Lines 262-277: the extraction, then the test on sql_query; a value that
\* is no str has no strip method (AttributeError).
query_data(context) ==
    LET args == parse_context_args(context, <<"sql_query">>)
    IN IF args.out # "args" THEN args
       ELSE LET sql_query == args.val[2]["sql_query"]
            IN IF TypeOf(sql_query) # "str"
               THEN Res("raise", "AttributeError", Null)
               ELSE IF ~StartsWith(Upper(Strip(sql_query[2])), SELECT)
               THEN Res("error", "This tool is for SELECT queries only. Use appropriate tools for modifications.", Null)
               ELSE Res("forward", "none", sql_query)

\* ------------------------------------------------- result of a statement
RECURSIVE DictZip(_, _, _)
\* dict(zip(colnames, row)) as the sequence of its items in insertion
\* order: a name met again keeps its place and takes the later value.
DictZip(colnames, row, d) ==
    IF colnames = <<>> \/ row = <<>> THEN d
    ELSE LET k == Head(colnames)
             v == Head(row)
         IN IF \E i \in 1..Len(d) : d[i][1] = k
            THEN DictZip(Tail(colnames), Tail(row),
                         [i \in 1..Len(d) |-> IF d[i][1] = k THEN <<k, v>> ELSE d[i]])
            ELSE DictZip(Tail(colnames), Tail(row), Append(d, <<k, v>>))

\* Lines 182-187: rows, colnames and result_rows of a statement whose
\* result description names the columns colnames.
FetchAll(colnames) ==
    <<[i \in 1..Len(colnames) |-> i], [i \in 1..Len(colnames) |-> 10 + i]>>

QueryResult(colnames) ==
    LET rows == FetchAll(colnames)
    IN [columns |-> colnames,
        rows |-> [i \in 1..Len(rows) |-> DictZip(colnames, rows[i], <<>>)]]

NoResult == [columns |-> <<>>, rows |-> <<>>]

\* ----------------------------------------------------------------- inputs
\* The str values the inputs are built from.
S_5 == <<"5">>
S_10 == <<"1", "0">>
S_7sp == <<" ", "7", " ">>
S_m12 == <<"-", "1", "2">>
S_1u0 == <<"1", "_", "0">>
S_5p5 == <<"5", ".", "5">>
S_abc == <<"a", "b", "c">>
S_select1 == <<"S","E","L","E","C","T"," ","1">>
S_lower == <<" "," ","s","e","l","e","c","t"," ","1">>
S_mixed == <<"\t","S","e","L","e","C","t","\n","1">>
S_selected == <<"S","E","L","E","C","T","E","D">>
S_drop == <<"s","e","l","e","c","t"," ","1",";","D","R","O","P"," ","t">>
S_delete == <<"D","E","L","E","T","E"," ","F","R","O","M"," ","t">>
S_selec == <<"S","E","L","E","C">>
S_paren == <<"(","S","E","L","E","C","T"," ","1",")">>
S_blank == <<" ", " ">>

\* {"arguments": args}
Request(args) == Json(Obj([arguments |-> args]))

\* Values a caller may send for num_a and num_b.
AddValues ==
    {Integer(5), Integer(-3), Str(S_5), Str(S_10), Str(S_7sp), Str(S_m12),
     Str(S_1u0), Str(S_5p5), Str(S_abc), Str(<<>>), Float(57, 10),
     Float(-57, 10), Bool(TRUE), Null, NaN, Infinity, List(<<>>), Obj(EmptyFn)}

\* Payloads that are no {"arguments": ...} object.
OtherPayloads ==
    {Malformed, Json(Integer(5)), Json(Null), Json(Bool(TRUE)), Json(List(<<>>)),
     Json(List(<<Str(Chars("arguments"))>>)), Json(Str(S_abc)),
     Json(Str(Chars("arguments"))), Json(Obj(EmptyFn)),
     Json(Obj([num_a |-> Integer(1), num_b |-> Integer(2)]))}

\* Values of "arguments" that are no mapping.
OtherArgs(name) ==
    {Null, Integer(5), List(<<>>), List(<<Str(Chars(name))>>), Str(Chars(name)),
     Str(S_abc)}

AddContexts ==
    OtherPayloads
    \cup {Request(a) : a \in OtherArgs("num_a")}
    \cup {Request(Obj(EmptyFn))}
    \cup {Request(Obj([num_a |-> a])) : a \in {Integer(5), Null}}
    \cup {Request(Obj([num_b |-> b])) : b \in {Integer(5), Null}}
    \cup {Request(Obj([num_a |-> a, num_b |-> b])) : a, b \in AddValues}

\* Values a caller may send for sql_query.
SqlValues ==
    {Str(S_select1), Str(S_lower), Str(S_mixed), Str(S_selected), Str(S_drop),
     Str(S_delete), Str(S_selec), Str(S_paren), Str(S_blank), Str(<<>>),
     Integer(5), Null, Bool(TRUE), List(<<>>), Obj(EmptyFn)}

QueryContexts ==
    OtherPayloads
    \cup {Request(a) : a \in OtherArgs("sql_query")}
    \cup {Request(Obj(EmptyFn)), Request(Obj([num_a |-> Integer(1)]))}
    \cup {Request(Obj([sql_query |-> q])) : q \in SqlValues}

ParseNames ==
    {<<>>, <<"sql_query">>, <<"num_a", "num_b">>, <<"num_b", "num_a">>}

ParseContexts ==
    QueryContexts
    \cup {Request(a) : a \in OtherArgs("num_b")}
    \cup {Request(Obj([num_a |-> Integer(1)])), Request(Obj([num_b |-> Null])),
          Request(Obj([num_a |-> Str(S_5), num_b |-> List(<<>>)]))}

\* The requests of the concurrent workers: one of each kind of outcome.
AddRequests ==
    {Malformed, Request(Obj(EmptyFn)),
     Request(Obj([num_a |-> Str(S_5), num_b |-> Str(S_10)]))}

QueryRequests ==
    {Malformed, Json(Obj(EmptyFn)), Request(Obj(EmptyFn)),
     Request(Obj([sql_query |-> Str(S_delete)])),
     Request(Obj([sql_query |-> Str(S_select1)]))}

\* Result descriptions of the statements: distinct names, a repeated name.
Descriptions == {<<"a", "b">>, <<"a", "a">>}

\* ------------------------------------------------------------------- Init
\* The state after the import of db_manager: line 77 has run init_db_pool()
\* once, single-threaded, and it either built the pool or left db_pool None.
InitOk ==
    /\ db_pool = 1
    /\ pools = <<NewPool(1)>>
    /\ nconn = MinConn

InitFailed ==
    /\ db_pool = 0
    /\ pools = <<>>
    /\ nconn = 0

Init ==
    /\ InitOk \/ InitFailed
    /\ closed = {}
    /\ calls = 0
    /\ pc = [t \in Threads |-> "idle"]
    /\ op = [t \in Threads |-> "none"]
    /\ pl = [t \in Threads |-> 0]
    /\ key = [t \in Threads |-> 0]
    /\ obs = [t \in Threads |-> "none"]
    /\ conn = [t \in Threads |-> 0]
    /\ newPool = [t \in Threads |-> 0]
    /\ pend = [t \in Threads |-> "none"]
    /\ out = [t \in Threads |-> "none"]
    /\ msg = [t \in Threads |-> "none"]
    /\ ret = [t \in Threads |-> 0]
    /\ exc = [t \in Threads |-> "none"]
    /\ acq = [t \in Threads |-> 0]
    /\ rel = [t \in Threads |-> 0]
    /\ inits = [t \in Threads |-> 0]
    /\ sawInit = [t \in Threads |-> -1]
    /\ envSeen = [t \in Threads |-> "none"]
    /\ ctx = [t \in Threads |-> NoContext]
    /\ names = [t \in Threads |-> <<>>]
    /\ val = [t \in Threads |-> Null]
    /\ res = [t \in Threads |-> NoResult]

\* ---------------------------------------------------------------- actions
\* How a call ends: pc done, with what the caller sees.
End(t, o, m) ==
    /\ pc' = [pc EXCEPT ![t] = "done"]
    /\ out' = [out EXCEPT ![t] = o]
    /\ msg' = [msg EXCEPT ![t] = m]
    /\ UNCHANGED val

\* The same, with the value v that goes with it.
EndVal(t, o, m, v) ==
    /\ pc' = [pc EXCEPT ![t] = "done"]
    /\ out' = [out EXCEPT ![t] = o]
    /\ msg' = [msg EXCEPT ![t] = m]
    /\ val' = [val EXCEPT ![t] = v]

\* _execute_query leaves through its finally block after the try block ended
\* with pend: the rows are returned, anything else is an exception no except
\* clause of _execute_query names, and it propagates to the caller.
Finish(t) ==
    /\ IF pend[t] = "rows" THEN End(t, "rows", "columns_rows")
                           ELSE End(t, "raise", pend[t])
    /\ UNCHANGED exc

\* get_db_connection raised e, so conn of _execute_query was never bound.
\* Whether the except ConnectionError clause ran (and returned the error
\* envelope) or not, the finally block runs "if conn:", which raises
\* UnboundLocalError, and that is what leaves _execute_query.
Raised(t, e) ==
    /\ exc' = [exc EXCEPT ![t] = e]
    /\ End(t, "raise", "UnboundLocalError")

\* A call starts on the free thread t; o is what runs: "query" for
\* _execute_query, "init_db_pool" for a call of init_db_pool itself.
Start(t, o) ==
    /\ pc[t] = "idle"
    /\ calls < MaxCalls
    /\ calls' = calls + 1
    /\ op' = [op EXCEPT ![t] = o]
    /\ pc' = [pc EXCEPT ![t] = IF o = "init_db_pool" THEN "i14" ELSE "g40"]
    /\ UNCHANGED <<shared, input, getLocals, conn, newPool, pend, res, result, ret,
                   ghost>>

\* The three tools with a fixed statement hand it to _execute_query, which
\* passes it to cursor.execute unread; the statement decides no branch.
get_databases_tool(t) == Start(t, "query")

get_schemas_tool(t) == Start(t, "query")

get_all_keys_tool(t) == Start(t, "query")

\* init_db_pool called on its own, as line 77 does at import.
init_db_pool(t) == Start(t, "init_db_pool")

\* add_integers_tool, lines 97-146: no step of it reads or writes anything
\* shared, so the whole call is one step.
add_integers_tool(t, context) ==
    /\ pc[t] = "idle"
    /\ calls < MaxCalls
    /\ calls' = calls + 1
    /\ op' = [op EXCEPT ![t] = "add_integers"]
    /\ ctx' = [ctx EXCEPT ![t] = context]
    /\ LET r == add_integers(context)
       IN EndVal(t, r.out, r.msg, r.val)
    /\ UNCHANGED <<shared, names, getLocals, conn, newPool, pend, res, exc, ret,
                   ghost>>

\* query_data_tool is invoked with the context string (lines 259-260).
query_data_tool(t, context) ==
    /\ pc[t] = "idle"
    /\ calls < MaxCalls
    /\ calls' = calls + 1
    /\ op' = [op EXCEPT ![t] = "query_data"]
    /\ ctx' = [ctx EXCEPT ![t] = context]
    /\ pc' = [pc EXCEPT ![t] = "v262"]
    /\ UNCHANGED <<shared, names, getLocals, conn, newPool, pend, res, result,
                   ret, ghost>>

\* Mutant of Validate: without the test of line 269, every statement that
\* was extracted is handed to _execute_query.
Validate_NoSelectCheck(t) ==
    /\ pc[t] = "v262"
    /\ LET r == parse_context_args(ctx[t], <<"sql_query">>)
       IN IF r.out = "args"
          THEN /\ pc' = [pc EXCEPT ![t] = "g40"]
               /\ op' = [op EXCEPT ![t] = "query"]
               /\ ctx' = [ctx EXCEPT ![t] = NoContext]
               /\ UNCHANGED <<out, msg, val>>
          ELSE /\ EndVal(t, r.out, r.msg, r.val)
               /\ UNCHANGED <<op, ctx>>
    /\ UNCHANGED <<shared, calls, names, getLocals, conn, newPool, pend, res, exc,
                   ret, ghost>>

\* query_data_tool, lines 262-279: the validation, local to the call. A
\* statement that passes is handed to _execute_query (line 279), which, as
\* for the tools with a fixed statement, passes it to cursor.execute unread:
\* from here on the call is a call of _execute_query.
Validate(t) ==
    /\ pc[t] = "v262"
    /\ LET r == query_data(ctx[t])
       IN IF r.out = "forward"
          THEN /\ pc' = [pc EXCEPT ![t] = "g40"]
               /\ op' = [op EXCEPT ![t] = "query"]
               /\ ctx' = [ctx EXCEPT ![t] = NoContext]
               /\ UNCHANGED <<out, msg, val>>
          ELSE /\ EndVal(t, r.out, r.msg, r.val)
               /\ UNCHANGED <<op, ctx>>
    /\ UNCHANGED <<shared, calls, names, getLocals, conn, newPool, pend, res, exc,
                   ret, ghost>>

\* _parse_context_args called on its own with the names expected_arg_names.
parse_call(t, context_str, expected_arg_names) ==
    /\ pc[t] = "idle"
    /\ calls < MaxCalls
    /\ calls' = calls + 1
    /\ op' = [op EXCEPT ![t] = "parse"]
    /\ ctx' = [ctx EXCEPT ![t] = context_str]
    /\ names' = [names EXCEPT ![t] = expected_arg_names]
    /\ LET r == parse_context_args(context_str, expected_arg_names)
       IN EndVal(t, r.out, r.msg, r.val)
    /\ UNCHANGED <<shared, getLocals, conn, newPool, pend, res, exc, ret, ghost>>

\* Where init_db_pool goes after its if statement: to its return for a direct
\* call; get_db_connection drops the returned value and tests the global.
AfterInit(t) == IF op[t] = "init_db_pool" THEN "i34" ELSE "g43"

\* Mutant of GetCheck: an uninitialized pool is not initialized on demand.
GetCheck_NoRetry(t) ==
    /\ pc[t] = "g40"
    /\ pc' = [pc EXCEPT ![t] = IF db_pool = 0 THEN "g43" ELSE "g48"]
    /\ UNCHANGED <<shared, calls, op, input, getLocals, conn, newPool, pend, res, result,
                   ret, ghost>>

\* get_db_connection, line 40: if db_pool is None: init_db_pool()
GetCheck(t) ==
    /\ pc[t] = "g40"
    /\ IF db_pool = 0
       THEN /\ pc' = [pc EXCEPT ![t] = "i14"]
            /\ inits' = [inits EXCEPT ![t] = @ + 1]
       ELSE /\ pc' = [pc EXCEPT ![t] = "g48"]
            /\ UNCHANGED inits
    /\ UNCHANGED <<shared, calls, op, input, getLocals, conn, newPool, pend, res, result,
                   ret, acq, rel, sawInit, envSeen>>

\* Mutant of InitCheck: the pool is constructed whether or not one exists.
InitCheck_Always(t) ==
    /\ pc[t] = "i14"
    /\ sawInit' = [sawInit EXCEPT ![t] = db_pool]
    /\ pc' = [pc EXCEPT ![t] = "i16"]
    /\ UNCHANGED <<shared, calls, op, input, getLocals, conn, newPool, pend, res, result,
                   ret, acq, rel, inits, envSeen>>

\* init_db_pool, line 14: if db_pool is None
InitCheck(t) ==
    /\ pc[t] = "i14"
    /\ sawInit' = [sawInit EXCEPT ![t] = db_pool]
    /\ pc' = [pc EXCEPT ![t] = IF db_pool = 0 THEN "i16" ELSE AfterInit(t)]
    /\ UNCHANGED <<shared, calls, op, input, getLocals, conn, newPool, pend, res, result,
                   ret, acq, rel, inits, envSeen>>

\* init_db_pool, lines 16-27: read the connection string and construct the
\* pool, which opens minconn connections. The environment decides: the string
\* is unset (ValueError), the server refuses (psycopg2.OperationalError), or
\* the pool is built. Both failures go to the except clause.
InitConstruct(t) ==
    /\ pc[t] = "i16"
    /\ \E e \in {"unset", "down", "ok"} :
        /\ envSeen' = [envSeen EXCEPT ![t] = e]
        /\ IF e = "ok"
           THEN /\ pools' = Append(pools, NewPool(nconn + 1))
                /\ nconn' = nconn + MinConn
                /\ newPool' = [newPool EXCEPT ![t] = Len(pools) + 1]
                /\ pc' = [pc EXCEPT ![t] = "i27"]
           ELSE /\ pc' = [pc EXCEPT ![t] = "i33"]
                /\ UNCHANGED <<pools, nconn, newPool>>
    /\ UNCHANGED <<db_pool, closed, calls, op, input, getLocals, conn, pend, res, result,
                   ret, acq, rel, inits, sawInit>>

\* Mutant of InitStore: the pool is bound to a local name, the global stays.
InitStore_Local(t) ==
    /\ pc[t] = "i27"
    /\ pc' = [pc EXCEPT ![t] = AfterInit(t)]
    /\ UNCHANGED <<shared, calls, op, input, getLocals, conn, newPool, pend, res, result,
                   ret, ghost>>

\* init_db_pool, line 27: the store db_pool = <the pool just constructed>
InitStore(t) ==
    /\ pc[t] = "i27"
    /\ db_pool' = newPool[t]
    /\ pc' = [pc EXCEPT ![t] = AfterInit(t)]
    /\ UNCHANGED <<pools, nconn, closed, calls, op, input, getLocals, conn, newPool,
                   pend, res, result, ret, ghost>>

\* init_db_pool, lines 29-33: the except clause stores db_pool = None
InitFail(t) ==
    /\ pc[t] = "i33"
    /\ db_pool' = 0
    /\ pc' = [pc EXCEPT ![t] = AfterInit(t)]
    /\ UNCHANGED <<pools, nconn, closed, calls, op, input, getLocals, conn, newPool,
                   pend, res, result, ret, ghost>>

\* init_db_pool, line 34: return db_pool, the global as it is now.
InitReturn(t) ==
    /\ pc[t] = "i34"
    /\ ret' = [ret EXCEPT ![t] = db_pool]
    /\ End(t, "returned", "db_pool")
    /\ UNCHANGED <<exc, shared, calls, op, input, getLocals, conn, newPool, pend, res, ghost>>

\* get_db_connection, lines 43-46: still None after the attempt raises
\* ConnectionError, which _execute_query meets in its except clause.
GetRecheck(t) ==
    /\ pc[t] = "g43"
    /\ IF db_pool = 0
       THEN Raised(t, "ConnectionError")
       ELSE /\ pc' = [pc EXCEPT ![t] = "g48"]
            /\ UNCHANGED result
    /\ UNCHANGED <<shared, calls, op, input, getLocals, conn, newPool, pend, res, ret, ghost>>

\* get_db_connection, line 48: db_pool.getconn(). The global is read again; on
\* a pool, _getconn starts with _getkey's "self._keys += 1". Every exception
\* here is logged and re-raised (lines 57-59).
GetConn(t) ==
    /\ pc[t] = "g48"
    /\ IF db_pool = 0
       THEN /\ Raised(t, "AttributeError")
            /\ UNCHANGED <<pools, pl>>
       ELSE /\ pl' = [pl EXCEPT ![t] = db_pool]
            /\ pools' = SetPool(db_pool, "keys", pools[db_pool].keys + 1)
            /\ pc' = [pc EXCEPT ![t] = "k_obs"]
            /\ UNCHANGED result
    /\ UNCHANGED <<db_pool, nconn, closed, calls, op, input, key, obs, conn, newPool,
                   pend, res, ret, ghost>>

\* _getconn: "return self._keys" of _getkey, then the tests that pick the
\* branch: key in self._used, self._pool, len(self._used) == self.maxconn.
GetObserve(t) ==
    /\ pc[t] = "k_obs"
    /\ LET P == pools[pl[t]]
           k == P.keys
       IN /\ key' = [key EXCEPT ![t] = k]
          /\ obs' = [obs EXCEPT ![t] =
                IF k \in DOMAIN P.used THEN "reuse"
                ELSE IF Len(P.idle) > 0 THEN "pop"
                ELSE IF Cardinality(DOMAIN P.used) = MaxConn THEN "exhausted"
                ELSE "connect"]
    /\ pc' = [pc EXCEPT ![t] = "k_act"]
    /\ UNCHANGED <<shared, calls, op, input, pl, conn, newPool, pend, res, result, ret, ghost>>

\* get_db_connection returns conn to _execute_query (lines 49-51, 173-174).
Got(t, c) ==
    /\ conn' = [conn EXCEPT ![t] = c]
    /\ acq' = [acq EXCEPT ![t] = pl[t]]
    /\ pc' = [pc EXCEPT ![t] = "q181"]
    /\ UNCHANGED result

\* _getconn: the branch taken, on the pool as it is now; up tells whether the
\* server accepts the connection _connect asks for.
GetAct(t, up) ==
    /\ pc[t] = "k_act"
    /\ LET p == pl[t]
           P == pools[p]
           k == key[t]
       IN CASE obs[t] = "reuse" ->
                 IF k \in DOMAIN P.used
                 THEN Got(t, P.used[k]) /\ UNCHANGED <<pools, nconn>>
                 ELSE Raised(t, "KeyError") /\ UNCHANGED <<pools, nconn, conn, acq>>
            [] obs[t] = "pop" ->
                 IF Len(P.idle) > 0
                 THEN LET c == P.idle[Len(P.idle)]
                      IN /\ pools' = [pools EXCEPT ![p] =
                               [@ EXCEPT !.idle = SubSeq(P.idle, 1, Len(P.idle) - 1),
                                         !.used = Put(P.used, k, c),
                                         !.rused = Put(P.rused, c, k)]]
                         /\ Got(t, c)
                         /\ UNCHANGED nconn
                 ELSE Raised(t, "IndexError") /\ UNCHANGED <<pools, nconn, conn, acq>>
            [] obs[t] = "exhausted" ->
                 Raised(t, "PoolError") /\ UNCHANGED <<pools, nconn, conn, acq>>
            [] obs[t] = "connect" ->
                 IF up
                 THEN LET c == nconn + 1
                      IN /\ nconn' = c
                         /\ pools' = [pools EXCEPT ![p] =
                               [@ EXCEPT !.used = Put(P.used, k, c),
                                         !.rused = Put(P.rused, c, k)]]
                         /\ Got(t, c)
                 ELSE Raised(t, "OperationalError")
                      /\ UNCHANGED <<pools, nconn, conn, acq>>
    /\ UNCHANGED <<db_pool, closed, calls, op, input, getLocals, newPool, pend, res, ret,
                   rel, inits, sawInit, envSeen>>

\* Mutant of Execute: the statement is run as soon as _execute_query is
\* entered, before get_db_connection has returned a connection.
Execute_Early(t, r, lost, colnames) ==
    /\ pc[t] \in {"g40", "q181"}
    /\ lost => r = "psycopg2.Error"
    /\ pend' = [pend EXCEPT ![t] = r]
    /\ res' = [res EXCEPT ![t] = IF r = "rows" THEN QueryResult(colnames) ELSE @]
    /\ closed' = IF lost THEN closed \cup {conn[t]} ELSE closed
    /\ pc' = [pc EXCEPT ![t] = "r65"]
    /\ UNCHANGED <<db_pool, pools, nconn, calls, op, input, getLocals, conn, newPool,
                   result, ret, ghost>>

\* _execute_query, lines 180-187: run the statement and build the result. It
\* ends with the rows (of a statement whose result description names the
\* columns colnames), with the psycopg2.Error of execute/fetchall, or with
\* the TypeError of json.dumps on a value JSON cannot carry. An error that
\* comes from a lost server connection leaves conn.closed set.
Execute(t, r, lost, colnames) ==
    /\ pc[t] = "q181"
    /\ lost => r = "psycopg2.Error"
    /\ pend' = [pend EXCEPT ![t] = r]
    /\ res' = [res EXCEPT ![t] = IF r = "rows" THEN QueryResult(colnames) ELSE @]
    /\ closed' = IF lost THEN closed \cup {conn[t]} ELSE closed
    /\ pc' = [pc EXCEPT ![t] = "r65"]
    /\ UNCHANGED <<db_pool, pools, nconn, calls, op, input, getLocals, conn, newPool,
                   result, ret, ghost>>

\* Mutant of Release: release_db_connection without its guard and its try, so
\* that None.putconn and the PoolError of putconn leave through the finally.
Release_Unguarded(t) ==
    /\ pc[t] = "r65"
    /\ IF db_pool = 0
       THEN /\ End(t, "raise", "AttributeError")
            /\ UNCHANGED <<exc, getLocals>>
       ELSE IF conn[t] \notin DOMAIN pools[db_pool].rused
       THEN /\ End(t, "raise", "PoolError")
            /\ UNCHANGED <<exc, getLocals>>
       ELSE /\ pl' = [pl EXCEPT ![t] = db_pool]
            /\ key' = [key EXCEPT ![t] = pools[db_pool].rused[conn[t]]]
            /\ obs' = [obs EXCEPT ![t] =
                  IF Len(pools[db_pool].idle) < MinConn THEN "append" ELSE "close"]
            /\ pc' = [pc EXCEPT ![t] = "p_keep"]
            /\ UNCHANGED result
    /\ UNCHANGED <<shared, calls, op, input, conn, newPool, pend, res, ret, ghost>>

\* _execute_query, lines 191-194, and release_db_connection, lines 65-67:
\* "if db_pool and conn" on the global as it is now, then _putconn up to the
\* test len(self._pool) < self.minconn. PoolError is logged and swallowed.
Release(t) ==
    /\ pc[t] = "r65"
    /\ IF db_pool = 0 \/ conn[t] \notin DOMAIN pools[db_pool].rused
       THEN /\ Finish(t)
            /\ UNCHANGED getLocals
       ELSE /\ pl' = [pl EXCEPT ![t] = db_pool]
            /\ key' = [key EXCEPT ![t] = pools[db_pool].rused[conn[t]]]
            /\ obs' = [obs EXCEPT ![t] =
                  IF Len(pools[db_pool].idle) < MinConn THEN "append" ELSE "close"]
            /\ pc' = [pc EXCEPT ![t] = "p_keep"]
            /\ UNCHANGED result
    /\ UNCHANGED <<shared, calls, op, input, conn, newPool, pend, res, ret, ghost>>

\* _putconn: with room in the pool, self._pool.append(conn) after the
\* rollback unless conn.closed; without room, conn.close().
PutKeep(t) ==
    /\ pc[t] = "p_keep"
    /\ LET p == pl[t]
           c == conn[t]
       IN IF obs[t] = "append"
          THEN /\ pools' = IF c \in closed THEN pools
                           ELSE SetPool(p, "idle", Append(pools[p].idle, c))
               /\ UNCHANGED closed
          ELSE /\ closed' = closed \cup {c}
               /\ UNCHANGED pools
    /\ pc' = [pc EXCEPT ![t] = "p_del"]
    /\ UNCHANGED <<db_pool, nconn, calls, op, input, getLocals, conn, newPool, pend, res,
                   result, ret, ghost>>

\* _putconn: del self._used[key] and del self._rused[id(conn)]; the KeyError
\* of either is logged and swallowed at line 69.
PutDel(t) ==
    /\ pc[t] = "p_del"
    /\ LET p == pl[t]
           P == pools[p]
           k == key[t]
           c == conn[t]
       IN IF k \notin DOMAIN P.used
          THEN UNCHANGED <<pools, rel>>
          ELSE IF c \notin DOMAIN P.rused
          THEN /\ pools' = SetPool(p, "used", Del(P.used, k))
               /\ UNCHANGED rel
          ELSE /\ pools' = [pools EXCEPT ![p] =
                     [@ EXCEPT !.used = Del(P.used, k), !.rused = Del(P.rused, c)]]
               /\ rel' = [rel EXCEPT ![t] = @ + 1]
    /\ Finish(t)
    /\ UNCHANGED <<db_pool, nconn, closed, calls, op, input, getLocals, conn, newPool,
                   pend, res, ret, acq, inits, sawInit, envSeen>>

\* The caller has its answer; the thread is free for the next invocation.
Return(t) ==
    /\ pc[t] = "done"
    /\ pc' = [pc EXCEPT ![t] = "idle"]
    /\ op' = [op EXCEPT ![t] = "none"]
    /\ pl' = [pl EXCEPT ![t] = 0]
    /\ key' = [key EXCEPT ![t] = 0]
    /\ obs' = [obs EXCEPT ![t] = "none"]
    /\ conn' = [conn EXCEPT ![t] = 0]
    /\ newPool' = [newPool EXCEPT ![t] = 0]
    /\ pend' = [pend EXCEPT ![t] = "none"]
    /\ out' = [out EXCEPT ![t] = "none"]
    /\ msg' = [msg EXCEPT ![t] = "none"]
    /\ ret' = [ret EXCEPT ![t] = 0]
    /\ exc' = [exc EXCEPT ![t] = "none"]
    /\ acq' = [acq EXCEPT ![t] = 0]
    /\ rel' = [rel EXCEPT ![t] = 0]
    /\ inits' = [inits EXCEPT ![t] = 0]
    /\ sawInit' = [sawInit EXCEPT ![t] = -1]
    /\ envSeen' = [envSeen EXCEPT ![t] = "none"]
    /\ ctx' = [ctx EXCEPT ![t] = NoContext]
    /\ names' = [names EXCEPT ![t] = <<>>]
    /\ val' = [val EXCEPT ![t] = Null]
    /\ res' = [res EXCEPT ![t] = NoResult]
    /\ UNCHANGED <<shared, calls>>

Next ==
    \/ \E t \in Threads : get_databases_tool(t)
    \/ \E t \in Threads : get_schemas_tool(t)
    \/ \E t \in Threads : get_all_keys_tool(t)
    \/ \E t \in Threads : init_db_pool(t)
    \/ \E t \in Threads, c \in AddRequests : add_integers_tool(t, c)
    \/ \E t \in Threads, c \in QueryRequests : query_data_tool(t, c)
    \/ \E t \in Threads : Validate(t)
    \/ \E t \in Threads : GetCheck(t)
    \/ \E t \in Threads : InitCheck(t)
    \/ \E t \in Threads : InitConstruct(t)
    \/ \E t \in Threads : InitStore(t)
    \/ \E t \in Threads : InitFail(t)
    \/ \E t \in Threads : InitReturn(t)
    \/ \E t \in Threads : GetRecheck(t)
    \/ \E t \in Threads : GetConn(t)
    \/ \E t \in Threads : GetObserve(t)
    \/ \E t \in Threads, up \in BOOLEAN : GetAct(t, up)
    \/ \E t \in Threads, r \in {"rows", "psycopg2.Error", "TypeError"},
          lost \in BOOLEAN, d \in Descriptions : Execute(t, r, lost, d)
    \/ \E t \in Threads : Release(t)
    \/ \E t \in Threads : PutKeep(t)
    \/ \E t \in Threads : PutDel(t)
    \/ \E t \in Threads : Return(t)

Spec == Init /\ [][Next]_vars

\* The host that runs one invocation at a time (a worker with a single
\* thread): a call starts only when every other call has returned.
Alone(t) == \A u \in Threads \ {t} : pc[u] = "idle"

NextSeq ==
    \/ \E t \in Threads : Alone(t) /\ get_databases_tool(t)
    \/ \E t \in Threads : Alone(t) /\ get_schemas_tool(t)
    \/ \E t \in Threads : Alone(t) /\ get_all_keys_tool(t)
    \/ \E t \in Threads : Alone(t) /\ init_db_pool(t)
    \/ \E t \in Threads, c \in AddContexts : Alone(t) /\ add_integers_tool(t, c)
    \/ \E t \in Threads, c \in QueryContexts : Alone(t) /\ query_data_tool(t, c)
    \/ \E t \in Threads, c \in ParseContexts, n \in ParseNames :
          Alone(t) /\ parse_call(t, c, n)
    \/ \E t \in Threads : Validate(t)
    \/ \E t \in Threads : GetCheck(t)
    \/ \E t \in Threads : InitCheck(t)
    \/ \E t \in Threads : InitConstruct(t)
    \/ \E t \in Threads : InitStore(t)
    \/ \E t \in Threads : InitFail(t)
    \/ \E t \in Threads : InitReturn(t)
    \/ \E t \in Threads : GetRecheck(t)
    \/ \E t \in Threads : GetConn(t)
    \/ \E t \in Threads : GetObserve(t)
    \/ \E t \in Threads, up \in BOOLEAN : GetAct(t, up)
    \/ \E t \in Threads, r \in {"rows", "psycopg2.Error", "TypeError"},
          lost \in BOOLEAN, d \in Descriptions : Execute(t, r, lost, d)
    \/ \E t \in Threads : Release(t)
    \/ \E t \in Threads : PutKeep(t)
    \/ \E t \in Threads : PutDel(t)
    \/ \E t \in Threads : Return(t)

SpecSeq == Init /\ [][NextSeq]_vars

\* ----------------------------------------------------------------- claims
Quiescent == \A t \in Threads : pc[t] \in {"idle", "done"}

Outstanding(p) == Cardinality(DOMAIN pools[p].used)

Range(f) == {f[x] : x \in DOMAIN f}

\* C1: every call of _execute_query that acquired a connection has released
\* it back to the pool exactly once when it ends, and a call that acquired
\* none has released none.
C1_ReleasedExactlyOnce ==
    \A t \in Threads :
        (pc[t] = "done" /\ op[t] = "query") =>
            rel[t] = (IF acq[t] # 0 THEN 1 ELSE 0)

\* C2: when the statement fails on an acquired connection, the call ends with
\* an {"error": ...} envelope and raises nothing.
C2_SqlFailureIsEnvelope ==
    \A t \in Threads :
        (pc[t] = "done" /\ op[t] = "query" /\ acq[t] # 0
            /\ pend[t] = "psycopg2.Error") => out[t] = "error"

\* C3: an invocation whose initialization attempt found the connection
\* string unset, and that got no connection, ends with an {"error": ...}
\* envelope and raises nothing.
C3_UnsetIsEnvelope ==
    \A t \in Threads :
        (pc[t] = "done" /\ op[t] = "query" /\ envSeen[t] = "unset" /\ acq[t] = 0)
            => out[t] = "error"

\* C4: when no invocation is in flight, the initialized pool has no
\* connection checked out.
C4_NoLeak ==
    (Quiescent /\ db_pool # 0) => Outstanding(db_pool) = 0

\* C5: at most one pool is ever constructed.
C5_OnePool == Len(pools) <= 1

\* The caller on t holds the connection get_db_connection returned and has
\* not yet handed it to release_db_connection.
Holds(t) == pc[t] \in {"q181", "r65"}

\* C6: no connection is held by two callers at once, a connection a caller
\* holds is not idle in a pool, no connection is twice in a pool's idle list,
\* and a pool owns at most maxconn connections.
C6_PoolAccounting ==
    /\ \A t, u \in Threads :
         (t # u /\ Holds(t) /\ Holds(u)) => conn[t] # conn[u]
    /\ \A p \in 1..Len(pools) :
         /\ \A t \in Threads : Holds(t) => conn[t] \notin Range(pools[p].idle)
         /\ \A i, j \in 1..Len(pools[p].idle) :
              i # j => pools[p].idle[i] # pools[p].idle[j]
         /\ Len(pools[p].idle) + Outstanding(p) <= MaxConn

InCall(t) == pc[t] \notin {"idle", "done"}

InitFailedIn(t) == envSeen[t] \in {"unset", "down"}

\* get_db_connection of the call on t has returned a connection.
HasConn(t) == Holds(t) \/ pc[t] \in {"p_keep", "p_del"}

\* C7: a call of init_db_pool that finds the pool initialized constructs
\* nothing, leaves db_pool as it found it and returns that pool; successive
\* calls leave exactly one pool instance.
C7_InitIdempotent ==
    /\ Len(pools) <= 1
    /\ \A t \in Threads :
         sawInit[t] > 0 =>
            /\ newPool[t] = 0
            /\ db_pool = sawInit[t]
            /\ (pc[t] = "done" /\ op[t] = "init_db_pool") => ret[t] = sawInit[t]

C7_Witness ==
    \E t \in Threads :
        /\ pc[t] = "done" /\ op[t] = "init_db_pool"
        /\ sawInit[t] = 1 /\ ret[t] = 1 /\ db_pool = 1 /\ Len(pools) = 1

\* C8: get_db_connection attempts initialization once, and only when it found
\* db_pool None; if db_pool is None after the attempt it raises
\* ConnectionError without having entered a pool; init_db_pool never raises:
\* a failed attempt leaves db_pool None and returns None.
C8_AcquireUninitialized ==
    \A t \in Threads :
        /\ inits[t] <= 1
        /\ (op[t] = "query" /\ pc[t] \notin {"idle", "g40"} /\ inits[t] = 0)
              => (db_pool # 0 /\ envSeen[t] = "none")
        /\ (op[t] = "query" /\ envSeen[t] # "none") => inits[t] = 1
        /\ (pc[t] = "done" /\ op[t] = "query" /\ InitFailedIn(t))
              => exc[t] = "ConnectionError"
        /\ exc[t] = "ConnectionError"
              => /\ inits[t] = 1 /\ InitFailedIn(t)
                 /\ pl[t] = 0 /\ key[t] = 0 /\ acq[t] = 0 /\ conn[t] = 0
        /\ (pc[t] = "done" /\ op[t] = "init_db_pool")
              => /\ out[t] = "returned"
                 /\ InitFailedIn(t) => (ret[t] = 0 /\ db_pool = 0)

C8_Witness ==
    \E t \in Threads :
        /\ pc[t] = "done" /\ op[t] = "query"
        /\ inits[t] = 1 /\ exc[t] = "ConnectionError" /\ db_pool = 0

\* C9: a failed attempt leaves the pool uninitialized, every acquire that
\* finds it uninitialized attempts initialization again, and an attempt that
\* finds the configuration valid and the server up builds the pool, stores
\* it, and the acquire returns a connection of that pool.
C9_SelfHealing ==
    \A t \in Threads :
        /\ (InCall(t) /\ InitFailedIn(t)) => (db_pool = 0 /\ pools = <<>>)
        /\ (InCall(t) /\ op[t] = "query" /\ pc[t] # "g40" /\ db_pool = 0)
              => inits[t] = 1
        /\ (op[t] = "query" /\ envSeen[t] = "ok" /\ pc[t] # "i27")
              => /\ db_pool = newPool[t] /\ db_pool # 0
                 /\ exc[t] = "none"
                 /\ (HasConn(t) \/ pc[t] = "done")
                       => (conn[t] # 0 /\ acq[t] = db_pool)

C9_Witness ==
    \E t \in Threads :
        /\ pc[t] = "q181" /\ inits[t] = 1 /\ envSeen[t] = "ok"
        /\ calls >= 2 /\ conn[t] # 0 /\ acq[t] = db_pool

\* C10: get_db_connection hands out no null handle, and an invocation whose
\* getconn failed (pool exhausted, connect refused) ends with an
\* {"error": ...} envelope and raises nothing.
C10_AcquireFailureIsEnvelope ==
    \A t \in Threads :
        /\ HasConn(t) => conn[t] # 0
        /\ (pc[t] = "done" /\ op[t] = "query"
               /\ exc[t] \in {"PoolError", "OperationalError"}) => out[t] = "error"

\* What _execute_query ends with when nothing but its try block decides:
\* the rows, or the exception the try block ended with.
TryOutcome(t) ==
    IF pend[t] = "rows" THEN <<"rows", "columns_rows">> ELSE <<"raise", pend[t]>>

\* C11: release_db_connection never raises, so a call that got a connection
\* ends with what its try block computed whether or not the release worked;
\* a release that finds the pool uninitialized, or a connection the pool
\* does not know, changes nothing of the pool state.
C11_ReleaseNeverRaises ==
    /\ [](\A t \in Threads :
            (pc[t] = "done" /\ op[t] = "query" /\ acq[t] # 0)
                => <<out[t], msg[t]>> = TryOutcome(t))
    /\ [][\A t \in Threads :
            (pc[t] = "r65" /\ pc'[t] # "r65"
               /\ (db_pool = 0 \/ conn[t] \notin DOMAIN pools[db_pool].rused))
                => (pc'[t] = "done" /\ UNCHANGED shared)]_vars

C11_Witness ==
    \E t \in Threads :
        /\ pc[t] = "done" /\ op[t] = "query"
        /\ acq[t] # 0 /\ rel[t] = 0 /\ out[t] = "rows"

\* The value of "arguments" when the payload is an object that has one.
HasArguments(c) ==
    c # Malformed /\ TypeOf(c[2]) = "obj" /\ "arguments" \in DOMAIN c[2][2]

ArgumentsOf(c) == c[2][2]["arguments"]

\* The arguments of the request are a mapping that has every name of ns.
Supplies(c, ns) ==
    /\ HasArguments(c)
    /\ TypeOf(ArgumentsOf(c)) = "obj"
    /\ ns \subseteq DOMAIN ArgumentsOf(c)[2]

Supplied(c, n) == ArgumentsOf(c)[2][n]

\* C12: add_integers on num_a and num_b that int() accepts returns their
\* sum; on any other num_a, num_b (a non-numeric string, null, a list, an
\* object) it returns the validation error envelope; it never raises.
C12_AddIntegers ==
    \A t \in Threads :
        (pc[t] = "done" /\ op[t] = "add_integers") =>
            /\ out[t] # "raise"
            /\ Supplies(ctx[t], {"num_a", "num_b"}) =>
                 LET a == IntOf(Supplied(ctx[t], "num_a"))
                     b == IntOf(Supplied(ctx[t], "num_b"))
                 IN IF a[1] = "ok" /\ b[1] = "ok"
                    THEN out[t] = "sum" /\ val[t] = Integer(a[2] + b[2])
                    ELSE /\ out[t] = "error"
                         /\ msg[t] = "Invalid argument types. 'num_a' and 'num_b' must be integers."

\* C13: _parse_context_args on a payload without a top-level "arguments"
\* entry, object or not, returns the validation error that names the
\* missing "arguments" key, whatever the expected names; on a payload that
\* does not parse it returns the invalid-format error; it does not raise.
C13_MissingArguments ==
    \A t \in Threads :
        (pc[t] = "done" /\ op[t] \in {"parse", "query_data"}) =>
            /\ ctx[t] = Malformed =>
                 /\ out[t] = "error"
                 /\ msg[t] = "Invalid JSON format in input context."
            /\ (ctx[t] # Malformed /\ ~HasArguments(ctx[t])) =>
                 /\ out[t] = "error"
                 /\ msg[t] = "Invalid input format: 'arguments' key missing."

\* The arguments of the request are a mapping (a JSON object).
HasMapping(c) == HasArguments(c) /\ TypeOf(ArgumentsOf(c)) = "obj"

\* The place in ns of the first name the mapping f lacks, 0 when it has all.
FirstMissing(ns, f) ==
    IF \A i \in 1..Len(ns) : ns[i] \in DOMAIN f THEN 0
    ELSE CHOOSE i \in 1..Len(ns) :
            ns[i] \notin DOMAIN f /\ \A j \in 1..(i - 1) : ns[j] \in DOMAIN f

IsSelect(text) == StartsWith(Upper(Strip(text)), SELECT)

\* C15: on a request that supplies sql_query, the validation of query_data
\* returns the SELECT-only error when the text does not start with SELECT
\* after trimming and case-folding, hands every text that does to
\* _execute_query whatever follows the word, and raises for no value of
\* sql_query.
C15_SelectOnly ==
    [][\A t \in Threads :
         (pc[t] = "v262" /\ pc'[t] # "v262" /\ Supplies(ctx[t], {"sql_query"})) =>
            LET q == Supplied(ctx[t], "sql_query")
            IN /\ ~(pc'[t] = "done" /\ out'[t] = "raise")
               /\ (TypeOf(q) = "str" /\ IsSelect(q[2])) => pc'[t] = "g40"
               /\ (TypeOf(q) = "str" /\ ~IsSelect(q[2])) =>
                    /\ pc'[t] = "done" /\ out'[t] = "error"
                    /\ msg'[t] = "This tool is for SELECT queries only. Use appropriate tools for modifications."
      ]_vars

\* C16: add_integers on a request whose arguments mapping lacks num_a, num_b
\* or both returns the envelope that names both as missing, and no sum; the
\* request {"arguments": {}} gets that envelope, and the request
\* {"arguments": {"num_a": "5", "num_b": "10"}} gets {"sum": 15}.
C16_MissingBoth ==
    \A t \in Threads :
        (pc[t] = "done" /\ op[t] = "add_integers") =>
            /\ (HasMapping(ctx[t])
                  /\ ~({"num_a", "num_b"} \subseteq DOMAIN ArgumentsOf(ctx[t])[2])) =>
                 /\ out[t] = "error"
                 /\ msg[t] = "Missing required arguments: 'num_a' and 'num_b'."
                 /\ val[t] = Null
            /\ ctx[t] = Request(Obj([num_a |-> Str(S_5), num_b |-> Str(S_10)])) =>
                 (out[t] = "sum" /\ val[t] = Integer(15))

C16_Witness ==
    \E t \in Threads :
        /\ pc[t] = "done" /\ op[t] = "add_integers"
        /\ ctx[t] = Request(Obj([num_a |-> Integer(5)]))
        /\ out[t] = "error"
        /\ msg[t] = "Missing required arguments: 'num_a' and 'num_b'."

\* The call on t has handed its connection to release_db_connection, or is
\* past its finally block.
ReleaseBegun(t) == pc[t] \in {"r65", "p_keep", "p_del", "done"}

\* C17: in every interleaving, a call of _execute_query runs its statement
\* only on a connection get_db_connection has returned to it and before it
\* starts to release it: a statement was run only if a connection had been
\* acquired, a release was done only after the statement was run, and no
\* step runs a statement without a connection or after the release began.
C17_AcquireExecuteRelease ==
    /\ [](\A t \in Threads :
            /\ pend[t] # "none" => (acq[t] # 0 /\ conn[t] # 0)
            /\ rel[t] > 0 => pend[t] # "none"
            /\ pc[t] \in {"p_keep", "p_del"} => pend[t] # "none")
    /\ [][\A t \in Threads :
            pend'[t] # pend[t] =>
               \/ pc'[t] = "idle"
               \/ /\ pend[t] = "none"
                  /\ acq[t] # 0 /\ conn[t] # 0
                  /\ ~ReleaseBegun(t) /\ rel[t] = 0
                  /\ conn'[t] = conn[t]]_vars

C17_Witness ==
    \E t, u \in Threads :
        /\ t # u
        /\ pc[t] = "done" /\ op[t] = "query"
        /\ acq[t] # 0 /\ pend[t] = "rows" /\ rel[t] = 1
        /\ pc[u] = "q181"

\* The names of a row mapping, in the order of its entries.
KeysOf(row) == [i \in 1..Len(row) |-> row[i][1]]

\* C18: in every result _execute_query returns, each row has one entry per
\* element of columns, with the names of columns in their order, also when
\* the result description repeats a name.
C18_RowsMatchColumns ==
    \A t \in Threads :
        (pc[t] = "done" /\ out[t] = "rows") =>
            \A i \in 1..Len(res[t].rows) : KeysOf(res[t].rows[i]) = res[t].columns

\* A request query_data_tool rejects: text that does not parse, no
\* "arguments", no sql_query in the arguments, or a statement that does not
\* start with SELECT.
RejectedRequest(c) ==
    \/ c = Malformed
    \/ ~HasArguments(c)
    \/ HasMapping(c) /\ "sql_query" \notin DOMAIN ArgumentsOf(c)[2]
    \/ /\ Supplies(c, {"sql_query"})
       /\ TypeOf(Supplied(c, "sql_query")) = "str"
       /\ ~IsSelect(Supplied(c, "sql_query")[2])

\* What the call on t has of the pool: nothing.
NoPoolUse(t) ==
    /\ conn[t] = 0 /\ acq[t] = 0 /\ rel[t] = 0 /\ inits[t] = 0
    /\ pl[t] = 0 /\ newPool[t] = 0 /\ pend[t] = "none" /\ exc[t] = "none"

\* C19: an add_integers invocation, and a query_data invocation that is
\* rejected during validation, ends without having asked for a connection,
\* and its steps leave db_pool and every pool's idle and checked-out
\* connections as they were.
C19_ValidationFrame ==
    /\ [](\A t \in Threads :
            (op[t] \in {"add_integers", "query_data"}) => NoPoolUse(t))
    /\ [][\A t \in Threads :
            /\ (pc[t] = "v262" /\ pc'[t] # "v262") => UNCHANGED shared
            /\ (pc[t] = "v262" /\ pc'[t] # "v262" /\ RejectedRequest(ctx[t])) =>
                  (pc'[t] = "done" /\ op'[t] = "query_data" /\ NoPoolUse(t)')
            /\ (pc[t] = "idle" /\ op'[t] \in {"add_integers", "query_data"}) =>
                  UNCHANGED shared
            /\ (pc[t] = "idle" /\ op'[t] = "add_integers") => pc'[t] = "done"]_vars

C19_Witness ==
    \E t, u \in Threads :
        /\ t # u
        /\ pc[t] = "done" /\ op[t] = "query_data"
        /\ ctx[t] = Request(Obj([sql_query |-> Str(S_delete)]))
        /\ out[t] = "error"
        /\ pc[u] = "q181"

\* C20: once db_pool refers to a pool it stays that pool, whatever the
\* concurrent calls do: it is never set back to None and never replaced; so
\* a connection is released into the pool it was acquired from.
C20_PoolStable ==
    /\ [][db_pool # 0 => db_pool' = db_pool]_vars
    /\ [](\A t \in Threads : pc[t] \in {"p_keep", "p_del"} => pl[t] = acq[t])

====
